---- MODULE Spec2Model ----
(***************************************************************************)
(* Translate-bot-Discord: the message admission and translation pipeline   *)
(* and the configuration commands of the five programs of the repository.  *)
(*                                                                         *)
(*   "ban"  src/unnamed/part_000          three slots, in-memory channel   *)
(*                                        index, banned-word list          *)
(*   "two"  src/unnamed/part_001:203-484  two slots, enrollment by query   *)
(*   "cli"  src/unnamed/part_001:1-201    one channel, detector + trans CLI*)
(*   "api"  src/main.go:1-219             one channel, detector + checked  *)
(*                                        translation API                  *)
(*   "raw"  src/main.go:221-398           one channel, detector + unchecked*)
(*                                        translation API                  *)
(*                                                                         *)
(* discordgo runs every handler in a goroutine of its own, so handlers     *)
(* interleave.  A step of the model is one access to shared state (a       *)
(* database call, a read or write of a global) together with the local     *)
(* computation that follows it.  A database call is atomic and may fail.   *)
(***************************************************************************)
EXTENDS Integers, Sequences, FiniteSets, Bags, TLC

(***************************************************************************)
(* Text.  A string is a sequence of code points; a code point is named by  *)
(* a one-element string ("U1F600" and "UFE0F" name the code points         *)
(* U+1F600 and U+FE0F, "U1D400" the upper-case letter U+1D400).            *)
(***************************************************************************)
LowerLetters == {"a", "b", "c", "d", "e", "l", "n", "r", "s", "t", "v", "w", "x", "y", "z"}
UpperLetters == {"A", "E", "T", "W", "U1D400"}
Spaces == {" ", "\n"}
MathSymbols == {"+"}
OtherSymbols == {"U1F600"}
NonSpacingMarks == {"UFE0F"}
Punctuation == {".", ",", ":"}
Digits == {"1"}

\* unicode.ToLower on one code point: the lower-case form of a letter that
\* has one; U+1D400 (MATHEMATICAL BOLD CAPITAL A, category Lu) has none
LowerRune(r) ==
  CASE r = "A" -> "a"
    [] r = "E" -> "e"
    [] r = "T" -> "t"
    [] r = "W" -> "w"
    [] OTHER -> r

\* unicode.IsSpace
IsSpace(r) == r \in Spaces

\* strings.ToLower
ToLower(s) == [i \in 1..Len(s) |-> LowerRune(s[i])]

RECURSIVE TrimLeft(_)
TrimLeft(s) ==
  IF s = <<>> THEN <<>>
  ELSE IF IsSpace(Head(s)) THEN TrimLeft(Tail(s)) ELSE s

RECURSIVE TrimRight(_)
TrimRight(s) ==
  IF s = <<>> THEN <<>>
  ELSE IF IsSpace(s[Len(s)]) THEN TrimRight(SubSeq(s, 1, Len(s) - 1)) ELSE s

\* strings.TrimSpace
TrimSpace(s) == TrimRight(TrimLeft(s))

\* strings.Fields: the maximal runs of non-space code points, in order.
\* cur is the run being read, acc the runs already closed.
RECURSIVE FieldsFrom(_, _, _)
FieldsFrom(s, cur, acc) ==
  IF s = <<>> THEN (IF cur = <<>> THEN acc ELSE Append(acc, cur))
  ELSE IF IsSpace(Head(s))
       THEN FieldsFrom(Tail(s), <<>>, IF cur = <<>> THEN acc ELSE Append(acc, cur))
       ELSE FieldsFrom(Tail(s), Append(cur, Head(s)), acc)

Fields(s) == FieldsFrom(s, <<>>, <<>>)

\* strings.Split(s, ","): the pieces between commas, empty pieces kept.
RECURSIVE SplitFrom(_, _, _)
SplitFrom(s, cur, acc) ==
  IF s = <<>> THEN Append(acc, cur)
  ELSE IF Head(s) = ","
       THEN SplitFrom(Tail(s), <<>>, Append(acc, cur))
       ELSE SplitFrom(Tail(s), Append(cur, Head(s)), acc)

SplitComma(s) == SplitFrom(s, <<>>, <<>>)

\* a test of the symbol categories alone
isEmoji_symbolsOnly(r) == r \in MathSymbols \cup OtherSymbols

\* isEmoji: unicode.S (Sc, Sk, Sm, So), unicode.So, unicode.Mn
isEmoji(r) == r \in MathSymbols \cup OtherSymbols \/ r \in OtherSymbols \/ r \in NonSpacingMarks

\* isOnlyEmoji: the loop returns false at the first code point that is no emoji
RECURSIVE isOnlyEmoji(_)
isOnlyEmoji(s) ==
  IF s = <<>> THEN TRUE
  ELSE IF ~isEmoji(Head(s)) THEN FALSE ELSE isOnlyEmoji(Tail(s))

\* a loop that gives up at the second mismatch
RECURSIVE SimilarLoop_oneAllowed(_, _, _, _)
SimilarLoop_oneAllowed(originalWords, translatedWords, i, diffCount) ==
  IF i > Len(originalWords) THEN TRUE
  ELSE IF i > Len(translatedWords) \/ originalWords[i] # translatedWords[i]
       THEN (IF diffCount + 1 > 1 THEN FALSE
             ELSE SimilarLoop_oneAllowed(originalWords, translatedWords, i + 1, diffCount + 1))
       ELSE SimilarLoop_oneAllowed(originalWords, translatedWords, i + 1, diffCount)

\* a loop that also counts the translated tokens beyond the original's
RECURSIVE SimilarLoop_bothLengths(_, _, _, _)
SimilarLoop_bothLengths(originalWords, translatedWords, i, diffCount) ==
  IF i > Len(originalWords) /\ i > Len(translatedWords) THEN TRUE
  ELSE IF \/ i > Len(translatedWords) \/ i > Len(originalWords)
          \/ originalWords[i] # translatedWords[i]
       THEN (IF diffCount + 1 > 2 THEN FALSE
             ELSE SimilarLoop_bothLengths(originalWords, translatedWords,
                                          i + 1, diffCount + 1))
       ELSE SimilarLoop_bothLengths(originalWords, translatedWords, i + 1, diffCount)

\* The loop of areTextsSimilar from index i with diffCount mismatches so far.
RECURSIVE SimilarLoop(_, _, _, _)
SimilarLoop(originalWords, translatedWords, i, diffCount) ==
  IF i > Len(originalWords) THEN TRUE
  ELSE IF i > Len(translatedWords) \/ originalWords[i] # translatedWords[i]
       THEN (IF diffCount + 1 > 2 THEN FALSE
             ELSE SimilarLoop(originalWords, translatedWords, i + 1, diffCount + 1))
       ELSE SimilarLoop(originalWords, translatedWords, i + 1, diffCount)

\* a scorer that normalises the original only
areTextsSimilar_rawTranslated(original, translated) ==
  LET o == ToLower(TrimSpace(original))
  IN IF o = translated THEN TRUE ELSE SimilarLoop(Fields(o), Fields(translated), 1, 0)

areTextsSimilar(original, translated) ==
  LET o == ToLower(TrimSpace(original))
      t == ToLower(TrimSpace(translated))
  IN IF o = t THEN TRUE ELSE SimilarLoop(Fields(o), Fields(t), 1, 0)

\* a post of the translation alone
Translated_noLabel(translatedText) == translatedText

\* fmt.Sprintf("Translated: %s", translatedText)
Label == <<"T", "r", "a", "n", "s", "l", "a", "t", "e", "d", ":", " ">>
Translated(translatedText) == Label \o translatedText


(***************************************************************************)
(* The world the programs run in.                                          *)
(***************************************************************************)
Variants == {"ban", "two", "cli", "api", "raw"}
Procs == {"g1", "g2"}            \* handler goroutines that may run at once
Servers == {"s1", "s2"}
Channels == {"c1", "c2"}
Bot == "bot"                     \* s.State.User.ID
Users == {"u1"}
NoChannel == "nil"               \* an option the command did not supply
SqlNull == "NULL"                \* a NULL column, sql.NullString{Valid: false}
NoRow == <<>>                    \* no record for the server; no key in the map

\* Bound of the exploration: the events (messages, commands) delivered.
MaxEvents == 3
\* ... and how many of them may be messages, how many commands.
MaxOfKind == 2

\* Message texts
TxtABC == <<"a", " ", "b", " ", "c">>
TxtWBC == <<"W", " ", "b", " ", "c">>
TxtEmoji == <<"U1F600", "UFE0F", "+">>
TxtA == <<"a">>
TxtEnA == <<"E", "n", " ", "a">>
TxtAB == <<"a", " ", "b">>
TxtXYZ == <<"x", " ", "y", " ", "z">>

MsgTexts(v) ==
  CASE v = "ban" -> {TxtABC, TxtWBC, TxtEmoji, <<>>}
    [] v = "two" -> {TxtABC, TxtEmoji, TxtA, TxtEnA, TxtAB}
    [] v = "cli" -> {TxtABC, TxtEmoji, <<>>}
    [] OTHER -> {TxtABC, TxtEmoji}

\* What the trans subprocess can do: fail, write a translation to stdout, or
\* never end.
CmdFailed == [ends |-> TRUE, err |-> TRUE, out |-> <<>>]
CmdSilent == [ends |-> FALSE, err |-> FALSE, out |-> <<>>]
CmdOutcomes ==
  {CmdFailed, CmdSilent} \cup
  {[ends |-> TRUE, err |-> FALSE, out |-> o] : o \in {<<"x", " ", "y", " ", "z", "\n">>,
                                       <<"A", " ", "b", " ", "c", "\n">>}}

\* Raw arguments of /banword add and /banword remove
AddInputs == {<<"w">>, <<" ", "W", ",", ",", "v">>, <<" ">>, <<"U1D400">>}
RemoveInputs == {<<"w">>, <<" ", "V">>, <<" ">>}
InitWordbans == {{}, {<<"w">>}}

\* The options of /translate, one per slot
TranslateOptions(v) ==
  IF v = "ban"
  THEN {<<NoChannel, NoChannel, NoChannel>>, <<"c1", NoChannel, NoChannel>>,
        <<NoChannel, "c2", NoChannel>>, <<"c2", NoChannel, "c1">>}
  ELSE {<<NoChannel, NoChannel>>, <<"c1", NoChannel>>,
        <<NoChannel, "c2">>, <<"c2", "c1">>}

NoRecords == [s \in Servers |-> NoRow]
InitChannels(v) ==
  CASE v = "ban" -> {NoRecords, [NoRecords EXCEPT !["s1"] = <<"c1", SqlNull, SqlNull>>]}
    [] v = "two" -> {NoRecords, [NoRecords EXCEPT !["s1"] = <<"c1", "">>]}
    [] OTHER -> {NoRecords}

VARIABLES
  variant,             \* which of the five programs runs
  dbChannels,          \* table channels: server_id -> channel_id1.. (or NoRow)
  dbWordban,           \* table wordban: the set of words (word is UNIQUE)
  translateChannels,   \* part_000: map[string][3]string
  bannedWords,         \* part_000: map[string]struct{}
  translateChannelID,  \* cli, api, raw: the one enrolled channel
  g,                   \* the handler goroutines that are running
  last,                \* the handler that returned in the last step, if any
  posts,               \* ChannelMessageSend calls so far: <<channel, text>>
  crashed,             \* the process has exited (log.Fatalf, panic)
  count,               \* events delivered so far
  hist,                \* history: some translation has failed (gwFailed),
                       \* some database call has failed (storeErr), the
                       \* words of add confirmations, not deleted since
                       \* they were inserted (confirmed)
  acked                \* history: <<server, slot, channel>> acknowledged and
                       \* not overwritten in storage since

vars == <<variant, dbChannels, dbWordban, translateChannels, bannedWords,
          translateChannelID, g, last, posts, crashed, count,
          hist, acked>>

StoreFailed == [hist EXCEPT !.storeErr = TRUE]

Idle == [pc |-> "idle", kind |-> "none"]

\* sql.NullString.String of a column
NullStr(col) == IF col = SqlNull THEN "" ELSE col

\* loadTranslateChannels on the whole table in one go (main, at startup)
LoadedIndex(table) ==
  [s \in Servers |-> IF table[s] = NoRow THEN NoRow
                     ELSE [k \in 1..Len(table[s]) |-> NullStr(table[s][k])]]

Init ==
  /\ variant \in Variants
  /\ dbChannels \in InitChannels(variant)
  /\ dbWordban \in (IF variant = "ban" THEN InitWordbans ELSE {{}})
  /\ translateChannels = (IF variant = "ban" THEN LoadedIndex(dbChannels) ELSE NoRecords)
  /\ bannedWords = dbWordban
  /\ translateChannelID = ""
  /\ g = [p \in Procs |-> Idle]
  /\ last = Idle
  /\ posts = <<>>
  /\ crashed = FALSE
  /\ count = [msgs |-> 0, cmds |-> 0, human |-> 0]
  /\ hist = [gwFailed |-> FALSE, storeErr |-> FALSE, confirmed |-> {},
             rows |-> SetToBag(dbWordban)]
  /\ acked = {}

Budget(k) == count.msgs + count.cmds < MaxEvents /\ count[k] < MaxOfKind
\* Goroutines are anonymous: a new handler takes g1 when g1 is free.
Free(p) == ~crashed /\ g[p].pc = "idle" /\ (p = "g2" => g["g1"].pc # "idle")
At(p, pc) == ~crashed /\ g[p].pc = pc


(***************************************************************************)
(* Inbound messages.  A message comes from a user, or is one of the bot's  *)
(* own posts delivered back to it.                                         *)
(***************************************************************************)
Inbound ==
  {[author |-> a, channel |-> c, text |-> t] :
      a \in Users, c \in Channels, t \in MsgTexts(variant)}
  \cup {[author |-> Bot, channel |-> posts[i][1], text |-> posts[i][2]] :
      i \in 1..Len(posts)}

\* A channel identity is stored in some slot of some server's configuration.
StoredIn(config, channelID) ==
  \E s \in Servers : \E k \in DOMAIN config[s] : config[s][k] = channelID

\* The configuration the enrollment check of the running program consults.
Enrolled(channelID) ==
  CASE variant = "ban" -> StoredIn(translateChannels, channelID)
    [] variant = "two" -> StoredIn(dbChannels, channelID)
    [] OTHER -> translateChannelID = channelID

\* Some whitespace-delimited token, lower-cased, is a member of the set.
HasBannedToken(text, words) ==
  \E i \in 1..Len(Fields(text)) : ToLower(Fields(text)[i]) \in words

NewMsg(m) ==
  [pc |-> "start", kind |-> "msg", author |-> m.author, channel |-> m.channel,
   text |-> m.text,          \* the text as delivered
   content |-> m.text,       \* m.Content
   enrolled |-> Enrolled(m.channel),   \* history: enrolled at the check
   banChecked |-> FALSE,     \* history: the banned-word check ran
   hit |-> FALSE,            \* history: a banned token at that check
   detCalls |-> 0, gwCalls |-> 0,      \* detector and gateway invocations
   gwArgs |-> <<>>,          \* the texts translateToEnglish was called with
   scored |-> <<>>,          \* the originals areTextsSimilar was called with
   det |-> "none",           \* "none", "err" or the language code
   gw |-> "none",            \* "none", "err", "ok", or "panic"
   translatedText |-> <<>>,
   sent |-> <<>>,            \* this handler's ChannelMessageSend calls
   afterFail |-> hist.gwFailed]   \* history: delivered after a failed translation

Received(m) ==
  [count EXCEPT !.msgs = @ + 1, !.human = IF m.author = Bot THEN @ ELSE @ + 1]

Done(rec) == [rec EXCEPT !.pc = "done"]

\* The handler is blocked in a call that never returns.
Waiting(rec) == [rec EXCEPT !.pc = "waiting"]

\* Another goroutine is between two writes of a global map (it is at pc, in
\* the loop that fills the map).  The maps are not locked: an access that
\* meets such a write is a data race, which the Go runtime may answer with a
\* fatal error.
MapRace(p, pc) == \E q \in Procs \ {p} : g[q].pc = pc /\ g[q].todo # {}

\* Goroutine p goes on as rec; when rec has returned, p is free again and the
\* finished handler is what `last` shows.
Step(p, rec) ==
  /\ g' = [g EXCEPT ![p] = IF rec.pc = "done" THEN Idle ELSE rec]
  /\ last' = IF rec.pc = "done" THEN rec ELSE Idle
Sending(rec, text) == [rec EXCEPT !.sent = Append(@, <<rec.channel, text>>)]

(***************************************************************************)
(* "ban": src/unnamed/part_000                                             *)
(***************************************************************************)
\* a check that asks only whether some server has a record
isTranslateChannel_anyRecord(channelID) ==
  \E s \in Servers : translateChannels[s] # NoRow

isTranslateChannel_ban(channelID) ==
  \E s \in Servers :
     \E k \in DOMAIN translateChannels[s] : translateChannels[s][k] = channelID

\* a check with strings.Contains on the whole text
containsBannedWord_substring(text) ==
  LET t == ToLower(text)
  IN \E w \in bannedWords : \E i \in 1..Len(t) :
        i + Len(w) - 1 <= Len(t) /\ SubSeq(t, i, i + Len(w) - 1) = w

\* a check without strings.ToLower
containsBannedWord_caseSensitive(text) ==
  LET words == Fields(text)
  IN \E i \in 1..Len(words) : words[i] \in bannedWords

containsBannedWord(text) ==
  LET words == Fields(ToLower(text))
  IN \E i \in 1..Len(words) : words[i] \in bannedWords

\* cmd.Run() of the trans script and what translateToEnglish makes of it
translateToEnglish_ban(outcome) ==
  IF ~outcome.ends THEN [hang |-> TRUE, err |-> FALSE, text |-> <<>>]
  ELSE IF outcome.err THEN [hang |-> FALSE, err |-> TRUE, text |-> <<>>]
  ELSE [hang |-> FALSE, err |-> FALSE, text |-> TrimSpace(outcome.out)]

\* a first return without the comparison with s.State.User.ID
Ignored_ban_noSelfCheck(m) == ~isTranslateChannel_ban(m.channel)

\* line 461: the first return of messageCreate
Ignored_ban(m) == m.author = Bot \/ ~isTranslateChannel_ban(m.channel)

\* a last return that compares the two texts as they are
Suppressed_ban_exact(content, translatedText) == content = translatedText

\* line 479: the last return of messageCreate
Suppressed_ban(content, translatedText) == areTextsSimilar(content, translatedText)

\* messageCreate up to its first read of bannedWords
messageCreate_ban(p) ==
  /\ variant = "ban" /\ Free(p) /\ Budget("msgs")
  /\ \/ \E m \in Inbound :
          /\ Step(p, IF Ignored_ban(m) THEN Done(NewMsg(m))
                     ELSE IF isOnlyEmoji(m.text) THEN Done(NewMsg(m))
                     ELSE [NewMsg(m) EXCEPT !.pc = "mc_banned"])
          /\ count' = Received(m)
          /\ UNCHANGED crashed
     \/ /\ MapRace(p, "tc_fill")
        /\ crashed' = TRUE
        /\ last' = Idle
        /\ UNCHANGED <<g, count>>
  /\ UNCHANGED <<variant, dbChannels, dbWordban, translateChannels, bannedWords,
                 translateChannelID, posts, hist, acked>>

\* containsBannedWord, then the start of the trans subprocess
messageCreate_ban_banned(p) ==
  /\ variant = "ban" /\ At(p, "mc_banned")
  /\ \/ LET rec == [g[p] EXCEPT !.banChecked = TRUE,
                                !.hit = HasBannedToken(g[p].text, bannedWords)]
        IN /\ Step(p, IF containsBannedWord(rec.content) THEN Done(rec)
                      ELSE [rec EXCEPT !.pc = "mc_translating", !.gwCalls = @ + 1,
                                       !.gwArgs = Append(@, rec.content)])
           /\ UNCHANGED crashed
     \/ /\ MapRace(p, "bw_fill")
        /\ crashed' = TRUE
        /\ last' = Idle
        /\ UNCHANGED g
  /\ UNCHANGED <<variant, dbChannels, dbWordban, translateChannels, bannedWords,
                 translateChannelID, posts, count, hist, acked>>

\* the subprocess ends; the similarity check; ChannelMessageSend
messageCreate_ban_translated(p) ==
  /\ variant = "ban" /\ At(p, "mc_translating")
  /\ \E outcome \in CmdOutcomes :
       LET r == translateToEnglish_ban(outcome)
           rec == [g[p] EXCEPT !.gw = IF r.err THEN "err" ELSE "ok",
                               !.translatedText = r.text,
                               !.scored = IF r.err THEN @ ELSE Append(@, g[p].content)]
           post == ~r.hang /\ ~r.err /\ ~Suppressed_ban(rec.content, r.text)
       IN /\ Step(p, IF r.hang THEN Waiting(g[p])
                     ELSE IF post THEN Done(Sending(rec, Translated(r.text)))
                     ELSE Done(rec))
          /\ posts' = IF post THEN Append(posts, <<rec.channel, Translated(r.text)>>)
                      ELSE posts
          /\ hist' = [hist EXCEPT !.gwFailed = @ \/ r.err]
  /\ UNCHANGED <<variant, dbChannels, dbWordban, translateChannels, bannedWords,
                 translateChannelID, crashed, count, acked>>

\* Another goroutine is inside a /translate command.
OtherTranslating(p) ==
  \E q \in Procs \ {p} : g[q].kind = "translate"

NewTranslate(p, server, opts) ==
  [pc |-> "start", kind |-> "translate", server |-> server, opts |-> opts,
   existing |-> <<>>,        \* existingChannelID1.. after the overrides
   snap |-> NoRecords,       \* rows of loadTranslateChannels
   todo |-> {},              \* rows not yet scanned
   overlap |-> OtherTranslating(p),   \* history: ran beside another /translate
   pre |-> dbChannels,       \* history: the table when the command began
   peer |-> <<>>,            \* history: <<server, opts>> of a /translate command
                             \* acknowledged while this one was under way
   resp |-> <<>>]            \* InteractionRespond calls

\* A command begins in p: the /translate commands under way now overlap it.
Begin(p, rec) ==
  /\ g' = [q \in Procs |->
             IF q = p THEN (IF rec.pc = "done" THEN Idle ELSE rec)
             ELSE IF g[q].kind = "translate" THEN [g[q] EXCEPT !.overlap = TRUE]
             ELSE g[q]]
  /\ last' = IF rec.pc = "done" THEN rec ELSE Idle

Responding(rec, text) == Done([rec EXCEPT !.resp = Append(@, text)])

\* The /translate command in p acknowledges success as rec and returns; the
\* /translate commands still under way have seen it acknowledged.
Acknowledging(p, rec) ==
  /\ g' = [q \in Procs |->
             IF q = p THEN Idle
             ELSE IF g[q].kind = "translate"
                  THEN [g[q] EXCEPT !.peer = <<rec.server, rec.opts>>]
             ELSE g[q]]
  /\ last' = rec

\* a write of the supplied options alone
Override_suppliedOnly(existing, opts) ==
  [k \in 1..Len(opts) |-> IF opts[k] # NoChannel THEN opts[k] ELSE ""]

\* lines 440-451: the supplied options replace the columns read
Override(existing, opts) ==
  [k \in 1..Len(opts) |-> IF opts[k] # NoChannel THEN opts[k] ELSE existing[k]]

\* a command handler without the test of lines 244-252
NoneSupplied_unchecked(opts) == FALSE

NoneSupplied(opts) == \A k \in 1..Len(opts) : opts[k] = NoChannel

\* the columns scanned by addTranslateChannels; sql.ErrNoRows leaves them NULL
Scanned_ban(row) == IF row = NoRow THEN <<SqlNull, SqlNull, SqlNull>> ELSE row

\* acknowledged slots of a server that a write of its row replaces
Overwritten(server, row) ==
  {a \in acked : a[1] = server /\ row[a[2]] # a[3]}

\* handleTranslateCommand up to the SELECT of addTranslateChannels
handleTranslateCommand_ban(p) ==
  /\ variant = "ban" /\ Free(p) /\ Budget("cmds")
  /\ \E server \in Servers, opts \in TranslateOptions("ban"), dbOk \in BOOLEAN :
       LET rec == NewTranslate(p, server, opts)
       IN /\ Begin(p,
                 IF NoneSupplied(opts)
                 THEN Responding(rec, "Error: At least one channel must be provided.")
                 ELSE IF ~dbOk
                 THEN Responding(rec, "Failed to enable translation for channels")
                 ELSE [rec EXCEPT !.pc = "tc_insert",
                          !.existing = Override(Scanned_ban(dbChannels[server]), opts)])
          /\ hist' = IF ~NoneSupplied(opts) /\ ~dbOk THEN StoreFailed ELSE hist
  /\ count' = [count EXCEPT !.cmds = @ + 1]
  /\ UNCHANGED <<variant, dbChannels, dbWordban, translateChannels, bannedWords,
                 translateChannelID, posts, crashed, acked>>

\* addTranslateChannels: INSERT OR REPLACE
addTranslateChannels_ban(p) ==
  /\ variant = "ban" /\ At(p, "tc_insert")
  /\ \/ /\ Step(p, Responding(g[p], "Failed to enable translation for channels"))
        /\ hist' = StoreFailed
        /\ UNCHANGED <<dbChannels, acked>>
     \/ /\ dbChannels' = [dbChannels EXCEPT ![g[p].server] = g[p].existing]
        /\ acked' = acked \ Overwritten(g[p].server, g[p].existing)
        /\ Step(p, [g[p] EXCEPT !.pc = "tc_query"])
        /\ UNCHANGED hist
  /\ UNCHANGED <<variant, dbWordban, translateChannels, bannedWords,
                 translateChannelID, posts, crashed, count>>

\* loadTranslateChannels: db.Query
loadTranslateChannels_query(p) ==
  /\ variant = "ban" /\ At(p, "tc_query")
  /\ \/ /\ Step(p, Responding(g[p], "Failed to enable translation for channels"))
        /\ hist' = StoreFailed
     \/ /\ Step(p, [g[p] EXCEPT !.pc = "tc_make", !.snap = dbChannels,
                          !.todo = {s \in Servers : dbChannels[s] # NoRow}])
        /\ UNCHANGED hist
  /\ UNCHANGED <<variant, dbChannels, dbWordban, translateChannels, bannedWords,
                 translateChannelID, posts, crashed, count, acked>>

\* loadTranslateChannels: translateChannels = make(map[string][3]string)
loadTranslateChannels_make(p) ==
  /\ variant = "ban" /\ At(p, "tc_make")
  /\ translateChannels' = NoRecords
  /\ Step(p, [g[p] EXCEPT !.pc = "tc_fill"])
  /\ UNCHANGED <<variant, dbChannels, dbWordban, bannedWords,
                 translateChannelID, posts, crashed, count, hist, acked>>

\* loadTranslateChannels: one round of rows.Next(); at the end of the rows
\* addTranslateChannels returns nil and handleTranslateCommand acknowledges
loadTranslateChannels_next(p) ==
  /\ variant = "ban" /\ At(p, "tc_fill")
  /\ \/ /\ g[p].todo = {}
        /\ Acknowledging(p, Responding([g[p] EXCEPT !.snap = NoRecords,
                                                     !.existing = <<>>],
                                        "Translation enabled for"))
        /\ acked' = acked \cup
              {<<g[p].server, k, g[p].opts[k]>> : k \in
                  {j \in 1..Len(g[p].opts) : /\ g[p].opts[j] # NoChannel
                                             /\ dbChannels[g[p].server] # NoRow
                                             /\ dbChannels[g[p].server][j] = g[p].opts[j]}}
        /\ UNCHANGED <<translateChannels, crashed, hist>>
     \/ /\ g[p].todo # {}
        /\ Step(p, Responding([g[p] EXCEPT !.snap = NoRecords, !.existing = <<>>,
                                           !.todo = {}],
                              "Failed to enable translation for channels"))
        /\ hist' = StoreFailed
        /\ UNCHANGED <<translateChannels, acked, crashed>>
     \/ \E s \in g[p].todo :
          /\ translateChannels' =
               [translateChannels EXCEPT ![s] =
                   [k \in 1..3 |-> NullStr(g[p].snap[s][k])]]
          /\ Step(p, [g[p] EXCEPT !.todo = @ \ {s}])
          /\ UNCHANGED <<acked, crashed, hist>>
     \/ /\ g[p].todo # {} /\ MapRace(p, "tc_fill")
        /\ crashed' = TRUE
        /\ last' = Idle
        /\ UNCHANGED <<g, translateChannels, acked, hist>>
  /\ UNCHANGED <<variant, dbChannels, dbWordban, bannedWords,
                 translateChannelID, posts, count>>

\* strings.TrimSpace(strings.ToLower(word))
Normalized(word) == TrimSpace(ToLower(word))

NewBanword(kind) ==
  [pc |-> "start", kind |-> kind,
   wordList |-> <<>>,        \* add: the words of the loop not yet reached
   word |-> <<>>,            \* the normalized word at hand
   addedWords |-> <<>>,
   todo |-> {},              \* loadBannedWords: rows not yet scanned
   listed |-> {},            \* list: the words of the response
   pre |-> bannedWords,      \* history: the in-memory set when the command began
   deleted |-> {},           \* history: words of addedWords that another
                             \* command has deleted since
   resp |-> <<>>]

\* The loop of handleBanwordAddCommand from the top of a round to its next
\* database call: empty words are skipped; at the end of the list the handler
\* reloads (if it added a word) or answers.
RECURSIVE NextWord(_)
NextWord(rec) ==
  IF rec.wordList = <<>>
  THEN IF Len(rec.addedWords) > 0
       THEN [rec EXCEPT !.pc = "bw_query", !.word = <<>>]
       ELSE Responding([rec EXCEPT !.word = <<>>],
                       "No new words were added to the ban list.")
  ELSE IF Normalized(Head(rec.wordList)) = <<>>
       THEN NextWord([rec EXCEPT !.wordList = Tail(@)])
       ELSE [rec EXCEPT !.pc = "ba_select", !.word = Normalized(Head(rec.wordList)),
                        !.wordList = Tail(@)]

\* handleBanwordAddCommand up to its first database call
handleBanwordAddCommand(p) ==
  /\ variant = "ban" /\ Free(p) /\ Budget("cmds")
  /\ \E words \in AddInputs :
       Step(p, NextWord([NewBanword("add") EXCEPT !.wordList = SplitComma(words)]))
  /\ count' = [count EXCEPT !.cmds = @ + 1]
  /\ UNCHANGED <<variant, dbChannels, dbWordban, translateChannels, bannedWords,
                 translateChannelID, posts, crashed, hist, acked>>

\* SELECT COUNT(*) FROM wordban WHERE word = ?
handleBanwordAddCommand_select(p) ==
  /\ variant = "ban" /\ At(p, "ba_select")
  /\ \/ /\ Step(p, Responding(g[p], "Failed to check word"))
        /\ hist' = StoreFailed
     \/ /\ Step(p, IF g[p].word \notin dbWordban THEN [g[p] EXCEPT !.pc = "ba_insert"]
                   ELSE NextWord(g[p]))
        /\ UNCHANGED hist
  /\ UNCHANGED <<variant, dbChannels, dbWordban, translateChannels, bannedWords,
                 translateChannelID, posts, crashed, count, acked>>

\* an INSERT that leaves the table as it was
Inserted_nowhere(words, word) == words

\* an INSERT into a table without the UNIQUE constraint on word
InsertOrIgnore_noUnique(rows, word) == rows (+) SetToBag({word})

\* The rows of wordban, as a bag of their words, after INSERT OR IGNORE:
\* word TEXT NOT NULL UNIQUE makes the statement a no-op if a row has the word
InsertOrIgnore(rows, word) ==
  IF BagIn(word, rows) THEN rows ELSE rows (+) SetToBag({word})

\* the rows after DELETE FROM wordban WHERE word = ?
DeleteWhere(rows, word) == [w \in (DOMAIN rows) \ {word} |-> rows[w]]

\* the table after INSERT OR IGNORE INTO wordban (word) VALUES (?)
Inserted(words, word) == words \cup {word}

\* INSERT OR IGNORE INTO wordban (word) VALUES (?)
handleBanwordAddCommand_insert(p) ==
  /\ variant = "ban" /\ At(p, "ba_insert")
  /\ \/ /\ Step(p, Responding(g[p], "Failed to add word to ban list"))
        /\ hist' = StoreFailed
        /\ UNCHANGED dbWordban
     \/ /\ dbWordban' = Inserted(dbWordban, g[p].word)
        /\ Step(p, NextWord([g[p] EXCEPT !.addedWords = Append(@, g[p].word)]))
        /\ hist' = [hist EXCEPT !.rows = InsertOrIgnore(@, g[p].word)]
  /\ UNCHANGED <<variant, dbChannels, translateChannels, bannedWords,
                 translateChannelID, posts, crashed, count, acked>>

\* handleBanwordRemoveCommand up to its DELETE
handleBanwordRemoveCommand(p) ==
  /\ variant = "ban" /\ Free(p) /\ Budget("cmds")
  /\ \E word \in RemoveInputs :
       LET rec == [NewBanword("remove") EXCEPT !.word = Normalized(word)]
       IN Step(p, IF rec.word = <<>> THEN Responding(rec, "No word provided to remove.")
                  ELSE [rec EXCEPT !.pc = "br_delete"])
  /\ count' = [count EXCEPT !.cmds = @ + 1]
  /\ UNCHANGED <<variant, dbChannels, dbWordban, translateChannels, bannedWords,
                 translateChannelID, posts, crashed, hist, acked>>

\* the add command rec has inserted the word
Added(rec, word) == \E i \in 1..Len(rec.addedWords) : rec.addedWords[i] = word

\* DELETE FROM wordban WHERE word = ?
handleBanwordRemoveCommand_delete(p) ==
  /\ variant = "ban" /\ At(p, "br_delete")
  /\ \/ /\ Step(p, Responding(g[p], "Failed to remove word from ban list"))
        /\ hist' = StoreFailed
        /\ UNCHANGED dbWordban
     \/ /\ dbWordban' = dbWordban \ {g[p].word}
        /\ g' = [q \in Procs |->
                   IF q = p THEN [g[p] EXCEPT !.pc = "bw_query"]
                   ELSE IF g[q].kind = "add" /\ Added(g[q], g[p].word)
                        THEN [g[q] EXCEPT !.deleted = @ \cup {g[p].word}]
                   ELSE g[q]]
        /\ last' = Idle
        /\ hist' = [hist EXCEPT !.confirmed = @ \ {g[p].word},
                                !.rows = DeleteWhere(@, g[p].word)]
  /\ UNCHANGED <<variant, dbChannels, translateChannels, bannedWords,
                 translateChannelID, posts, crashed, count, acked>>

\* loadBannedWords: db.Query; on an error the caller ends the process
loadBannedWords_query(p) ==
  /\ variant = "ban" /\ At(p, "bw_query")
  /\ \/ /\ crashed' = TRUE
        /\ last' = Idle
        /\ UNCHANGED g
     \/ /\ Step(p, [g[p] EXCEPT !.pc = "bw_make", !.todo = dbWordban])
        /\ UNCHANGED crashed
  /\ UNCHANGED <<variant, dbChannels, dbWordban, translateChannels, bannedWords,
                 translateChannelID, posts, count, hist, acked>>

\* loadBannedWords: bannedWords = make(map[string]struct{})
loadBannedWords_make(p) ==
  /\ variant = "ban" /\ At(p, "bw_make")
  /\ bannedWords' = {}
  /\ Step(p, [g[p] EXCEPT !.pc = "bw_fill"])
  /\ UNCHANGED <<variant, dbChannels, dbWordban, translateChannels,
                 translateChannelID, posts, crashed, count, hist, acked>>

\* loadBannedWords: one round of rows.Next(); at the end of the rows the
\* command answers
loadBannedWords_next(p) ==
  /\ variant = "ban" /\ At(p, "bw_fill")
  /\ \/ /\ g[p].todo = {}
        /\ Step(p, Responding(g[p], IF g[p].kind = "add" THEN "Added words to ban list"
                                    ELSE "Removed word from ban list"))
        /\ hist' = IF g[p].kind = "add"
                   THEN [hist EXCEPT !.confirmed = @ \cup
                           ({g[p].addedWords[i] : i \in 1..Len(g[p].addedWords)}
                               \ g[p].deleted)]
                   ELSE hist
        /\ UNCHANGED <<bannedWords, crashed>>
     \/ /\ g[p].todo # {}
        /\ crashed' = TRUE
        /\ last' = Idle
        /\ UNCHANGED <<g, bannedWords, hist>>
     \/ \E w \in g[p].todo :
          /\ bannedWords' = bannedWords \cup {w}
          /\ Step(p, [g[p] EXCEPT !.todo = @ \ {w}])
          /\ UNCHANGED <<crashed, hist>>
     \/ /\ g[p].todo # {} /\ MapRace(p, "bw_fill")
        /\ crashed' = TRUE
        /\ last' = Idle
        /\ UNCHANGED <<g, bannedWords, hist>>
  /\ UNCHANGED <<variant, dbChannels, dbWordban, translateChannels,
                 translateChannelID, posts, count, acked>>

\* the rows of SELECT word FROM wordban
ListedWords == dbWordban

\* handleBanwordListCommand: the query, the scan of its rows, the response
handleBanwordListCommand(p) ==
  /\ variant = "ban" /\ Free(p) /\ Budget("cmds")
  /\ \/ /\ Step(p, Responding(NewBanword("list"), "Failed to retrieve banned words"))
        /\ hist' = StoreFailed
     \/ /\ dbWordban # {}
        /\ Step(p, Responding(NewBanword("list"), "Failed to scan banned word"))
        /\ hist' = StoreFailed
     \/ /\ Step(p, Responding([NewBanword("list") EXCEPT !.listed = ListedWords],
                              "Banned words"))
        /\ UNCHANGED hist
  /\ count' = [count EXCEPT !.cmds = @ + 1]
  /\ UNCHANGED <<variant, dbChannels, dbWordban, translateChannels, bannedWords,
                 translateChannelID, posts, crashed, acked>>

(***************************************************************************)
(* "two": src/unnamed/part_001, the second program                         *)
(***************************************************************************)
\* SELECT COUNT(*) ... WHERE channel_id1 = ? OR channel_id2 = ?; the error of
\* row.Scan is dropped and count stays 0
isTranslateChannel_two(channelID, dbOk) ==
  LET n == IF dbOk
           THEN Cardinality({s \in Servers :
                   /\ dbChannels[s] # NoRow
                   /\ (dbChannels[s][1] = channelID \/ dbChannels[s][2] = channelID)})
           ELSE 0
  IN n > 0

translateToEnglish_two(outcome) ==
  IF ~outcome.ends THEN [hang |-> TRUE, err |-> FALSE, text |-> <<>>]
  ELSE IF outcome.err THEN [hang |-> FALSE, err |-> TRUE, text |-> <<>>]
  ELSE [hang |-> FALSE, err |-> FALSE, text |-> TrimSpace(outcome.out)]

\* line 383
Ignored_two(m, dbOk) == m.author = Bot \/ ~isTranslateChannel_two(m.channel, dbOk)

\* a handler that keeps the "en" prefix
Content_two_unstripped(content) ==
  IF Len(Fields(content)) = 1 THEN "return" ELSE content

\* lines 391-398: the text handed on, or "return" for a one-word message
Content_two(content) ==
  LET words == Fields(content)
  IN IF Len(words) = 1 THEN "return"
     ELSE IF Len(words) = 2 /\ ToLower(words[1]) = <<"e", "n">> THEN words[2]
     ELSE content

\* line 406
Suppressed_two(content, translatedText) == areTextsSimilar(content, translatedText)

\* messageCreate up to the start of the trans subprocess
messageCreate_two(p) ==
  /\ variant = "two" /\ Free(p) /\ Budget("msgs")
  /\ \E m \in Inbound, dbOk \in BOOLEAN :
       /\ Step(p, IF Ignored_two(m, dbOk) THEN Done(NewMsg(m))
                  ELSE IF isOnlyEmoji(m.text) THEN Done(NewMsg(m))
                  ELSE IF Content_two(m.text) = "return" THEN Done(NewMsg(m))
                  ELSE [NewMsg(m) EXCEPT !.pc = "translating",
                                         !.content = Content_two(m.text),
                                         !.gwCalls = @ + 1,
                                         !.gwArgs = <<Content_two(m.text)>>])
       /\ count' = Received(m)
  /\ UNCHANGED <<variant, dbChannels, dbWordban, translateChannels, bannedWords,
                 translateChannelID, posts, crashed, hist, acked>>

messageCreate_two_translated(p) ==
  /\ variant = "two" /\ At(p, "translating")
  /\ \E outcome \in CmdOutcomes :
       LET r == translateToEnglish_two(outcome)
           rec == [g[p] EXCEPT !.gw = IF r.err THEN "err" ELSE "ok",
                               !.translatedText = r.text,
                               !.scored = IF r.err THEN @ ELSE Append(@, g[p].content)]
           post == ~r.hang /\ ~r.err /\ ~Suppressed_two(rec.content, r.text)
       IN /\ Step(p, IF r.hang THEN Waiting(g[p])
                     ELSE IF post THEN Done(Sending(rec, Translated(r.text)))
                     ELSE Done(rec))
          /\ posts' = IF post THEN Append(posts, <<rec.channel, Translated(r.text)>>)
                      ELSE posts
          /\ hist' = [hist EXCEPT !.gwFailed = @ \/ r.err]
  /\ UNCHANGED <<variant, dbChannels, dbWordban, translateChannels, bannedWords,
                 translateChannelID, crashed, count, acked>>

\* the columns scanned into two strings; sql.ErrNoRows leaves them ""
Scanned_two(row) == IF row = NoRow THEN <<"", "">> ELSE row

\* interactionCreate up to the SELECT of addTranslateChannels
interactionCreate_two(p) ==
  /\ variant = "two" /\ Free(p) /\ Budget("cmds")
  /\ \E server \in Servers, opts \in TranslateOptions("two"), dbOk \in BOOLEAN :
       LET rec == NewTranslate(p, server, opts)
       IN Begin(p,
                 IF NoneSupplied(opts)
                 THEN Responding(rec, "Error: At least one channel must be provided.")
                 ELSE IF ~dbOk
                 THEN Responding(rec, "Failed to enable translation for channels")
                 ELSE [rec EXCEPT !.pc = "tc_insert",
                          !.existing = Override(Scanned_two(dbChannels[server]), opts)])
  /\ count' = [count EXCEPT !.cmds = @ + 1]
  /\ UNCHANGED <<variant, dbChannels, dbWordban, translateChannels, bannedWords,
                 translateChannelID, posts, crashed, hist, acked>>

\* addTranslateChannels: INSERT OR REPLACE, and the answer of interactionCreate
addTranslateChannels_two(p) ==
  /\ variant = "two" /\ At(p, "tc_insert")
  /\ \/ /\ Step(p, Responding(g[p], "Failed to enable translation for channels"))
        /\ UNCHANGED dbChannels
     \/ /\ dbChannels' = [dbChannels EXCEPT ![g[p].server] = g[p].existing]
        /\ Acknowledging(p, Responding([g[p] EXCEPT !.existing = <<>>],
                                        "Translation enabled for"))
  /\ UNCHANGED <<variant, dbWordban, translateChannels, bannedWords,
                 translateChannelID, posts, crashed, count, hist, acked>>

(***************************************************************************)
(* "cli", "api", "raw": one enrolled channel and a language detector       *)
(***************************************************************************)
\* What the detection service can do: no answer, an answer of another shape,
\* or a language code.
DetectResponses ==
  {[kind |-> "silent", language |-> ""],
   [kind |-> "neterr", language |-> ""], [kind |-> "malformed", language |-> ""],
   [kind |-> "lang", language |-> "en"], [kind |-> "lang", language |-> "fr"]}

\* What the translation service can do.
HttpFailed == [net |-> FALSE, status |-> 0, json |-> FALSE, body |-> "none", text |-> <<>>]
HttpSilent == [net |-> FALSE, status |-> 0, json |-> FALSE, body |-> "never", text |-> <<>>]
HttpResponses ==
  {HttpFailed, HttpSilent,
   [net |-> TRUE, status |-> 500, json |-> TRUE, body |-> "ok", text |-> TxtXYZ],
   [net |-> TRUE, status |-> 200, json |-> FALSE, body |-> "badjson", text |-> <<>>],
   [net |-> TRUE, status |-> 200, json |-> TRUE, body |-> "noResponseData", text |-> <<>>],
   [net |-> TRUE, status |-> 200, json |-> TRUE, body |-> "noTranslatedText", text |-> <<>>],
   [net |-> TRUE, status |-> 200, json |-> TRUE, body |-> "ok", text |-> TxtXYZ]}

\* part_001:132-138: the client gives up after 10 seconds
detectLanguage_cli(resp) ==
  IF resp.kind = "lang" THEN [hang |-> FALSE, err |-> FALSE, language |-> resp.language]
  ELSE [hang |-> FALSE, err |-> TRUE, language |-> ""]

detectLanguage_api(resp) ==
  IF resp.kind = "silent" THEN [hang |-> TRUE, err |-> FALSE, language |-> ""]
  ELSE IF resp.kind = "lang"
  THEN [hang |-> FALSE, err |-> FALSE, language |-> resp.language]
  ELSE [hang |-> FALSE, err |-> TRUE, language |-> ""]

detectLanguage_raw(resp) ==
  IF resp.kind = "silent" THEN [hang |-> TRUE, err |-> FALSE, language |-> ""]
  ELSE IF resp.kind = "lang"
  THEN [hang |-> FALSE, err |-> FALSE, language |-> resp.language]
  ELSE [hang |-> FALSE, err |-> TRUE, language |-> ""]

translateToEnglish_cli(outcome) ==
  IF ~outcome.ends THEN [hang |-> TRUE, err |-> FALSE, text |-> <<>>]
  ELSE IF outcome.err THEN [hang |-> FALSE, err |-> TRUE, text |-> <<>>]
  ELSE [hang |-> FALSE, err |-> FALSE, text |-> TrimSpace(outcome.out)]

\* main.go:177-219: every shape but the expected one is an error
translateToEnglish_api(resp) ==
  IF resp.body = "never"
  THEN [hang |-> TRUE, err |-> FALSE, panic |-> FALSE, text |-> <<>>]
  ELSE IF ~resp.net THEN [hang |-> FALSE, err |-> TRUE, panic |-> FALSE, text |-> <<>>]
  ELSE IF resp.status # 200 THEN [hang |-> FALSE, err |-> TRUE, panic |-> FALSE, text |-> <<>>]
  ELSE IF ~resp.json THEN [hang |-> FALSE, err |-> TRUE, panic |-> FALSE, text |-> <<>>]
  ELSE IF resp.body = "badjson" THEN [hang |-> FALSE, err |-> TRUE, panic |-> FALSE, text |-> <<>>]
  ELSE IF resp.body = "noResponseData" THEN [hang |-> FALSE, err |-> TRUE, panic |-> FALSE, text |-> <<>>]
  ELSE IF resp.body = "noTranslatedText" THEN [hang |-> FALSE, err |-> TRUE, panic |-> FALSE, text |-> <<>>]
  ELSE [hang |-> FALSE, err |-> FALSE, panic |-> FALSE, text |-> resp.text]

\* main.go:381-398: the error of json.Unmarshal is dropped and the two type
\* assertions are unchecked, so a body of another shape panics
translateToEnglish_raw(resp) ==
  IF resp.body = "never"
  THEN [hang |-> TRUE, err |-> FALSE, panic |-> FALSE, text |-> <<>>]
  ELSE IF ~resp.net THEN [hang |-> FALSE, err |-> TRUE, panic |-> FALSE, text |-> <<>>]
  ELSE IF resp.body # "ok" THEN [hang |-> FALSE, err |-> FALSE, panic |-> TRUE, text |-> <<>>]
  ELSE [hang |-> FALSE, err |-> FALSE, panic |-> FALSE, text |-> resp.text]

\* the first return of messageCreate in the three programs
Ignored_cli(m) == m.author = Bot \/ m.channel # translateChannelID
Ignored_api(m) == m.author = Bot \/ m.channel # translateChannelID
Ignored_raw(m) == m.author = Bot \/ m.channel # translateChannelID

\* interactionCreate: translateChannelID = channel.ID, then the answer
interactionCreate_one(p) ==
  /\ variant \in {"cli", "api", "raw"} /\ Free(p) /\ Budget("cmds")
  /\ \E channel \in Channels :
       /\ translateChannelID' = channel
       /\ Step(p, Responding([pc |-> "start", kind |-> "translate1",
                              channel |-> channel, resp |-> <<>>],
                             "Translation enabled for channel"))
  /\ count' = [count EXCEPT !.cmds = @ + 1]
  /\ UNCHANGED <<variant, dbChannels, dbWordban, translateChannels, bannedWords,
                 posts, crashed, hist, acked>>

\* messageCreate up to the request of detectLanguage
messageCreate_cli(p) ==
  /\ variant = "cli" /\ Free(p) /\ Budget("msgs")
  /\ \E m \in Inbound :
       /\ Step(p, IF Ignored_cli(m) THEN Done(NewMsg(m))
                  ELSE IF isOnlyEmoji(m.text) THEN Done(NewMsg(m))
                  ELSE [NewMsg(m) EXCEPT !.pc = "detecting", !.detCalls = @ + 1])
       /\ count' = Received(m)
  /\ UNCHANGED <<variant, dbChannels, dbWordban, translateChannels, bannedWords,
                 translateChannelID, posts, crashed, hist, acked>>

messageCreate_api(p) ==
  /\ variant = "api" /\ Free(p) /\ Budget("msgs")
  /\ \E m \in Inbound :
       /\ Step(p, IF Ignored_api(m) THEN Done(NewMsg(m))
                  ELSE [NewMsg(m) EXCEPT !.pc = "detecting", !.detCalls = @ + 1])
       /\ count' = Received(m)
  /\ UNCHANGED <<variant, dbChannels, dbWordban, translateChannels, bannedWords,
                 translateChannelID, posts, crashed, hist, acked>>

messageCreate_raw(p) ==
  /\ variant = "raw" /\ Free(p) /\ Budget("msgs")
  /\ \E m \in Inbound :
       /\ Step(p, IF Ignored_raw(m) THEN Done(NewMsg(m))
                  ELSE [NewMsg(m) EXCEPT !.pc = "detecting", !.detCalls = @ + 1])
       /\ count' = Received(m)
  /\ UNCHANGED <<variant, dbChannels, dbWordban, translateChannels, bannedWords,
                 translateChannelID, posts, crashed, hist, acked>>

\* a handler that logs the detector's error and goes on to translate
Detected_ignoringError(rec, r) ==
  IF r.hang THEN Waiting(rec)
  ELSE IF r.err
       THEN [rec EXCEPT !.det = "err", !.pc = "translating", !.gwCalls = @ + 1,
                        !.gwArgs = Append(@, rec.content)]
  ELSE IF r.language # "en"
       THEN [rec EXCEPT !.det = r.language, !.pc = "translating", !.gwCalls = @ + 1,
                        !.gwArgs = Append(@, rec.content)]
       ELSE Done([rec EXCEPT !.det = r.language])

\* a handler that translates whatever language is detected
Detected_noEnglishCheck(rec, r) ==
  IF r.hang THEN Waiting(rec)
  ELSE IF r.err THEN Done([rec EXCEPT !.det = "err"])
  ELSE [rec EXCEPT !.det = r.language, !.pc = "translating", !.gwCalls = @ + 1,
                        !.gwArgs = Append(@, rec.content)]

\* The detector has answered with r: the handler returns, or asks for the
\* translation.
Detected(rec, r) ==
  IF r.hang THEN Waiting(rec)
  ELSE IF r.err THEN Done([rec EXCEPT !.det = "err"])
  ELSE IF r.language # "en"
       THEN [rec EXCEPT !.det = r.language, !.pc = "translating", !.gwCalls = @ + 1,
                        !.gwArgs = Append(@, rec.content)]
       ELSE Done([rec EXCEPT !.det = r.language])

messageCreate_cli_detected(p) ==
  /\ variant = "cli" /\ At(p, "detecting")
  /\ \E resp \in DetectResponses : Step(p, Detected(g[p], detectLanguage_cli(resp)))
  /\ UNCHANGED <<variant, dbChannels, dbWordban, translateChannels, bannedWords,
                 translateChannelID, posts, crashed, count, hist, acked>>

messageCreate_api_detected(p) ==
  /\ variant = "api" /\ At(p, "detecting")
  /\ \E resp \in DetectResponses : Step(p, Detected(g[p], detectLanguage_api(resp)))
  /\ UNCHANGED <<variant, dbChannels, dbWordban, translateChannels, bannedWords,
                 translateChannelID, posts, crashed, count, hist, acked>>

messageCreate_raw_detected(p) ==
  /\ variant = "raw" /\ At(p, "detecting")
  /\ \E resp \in DetectResponses : Step(p, Detected(g[p], detectLanguage_raw(resp)))
  /\ UNCHANGED <<variant, dbChannels, dbWordban, translateChannels, bannedWords,
                 translateChannelID, posts, crashed, count, hist, acked>>

\* The translation has ended with r: the handler logs the error, or posts.
Answered(p, r) ==
  LET rec == [g[p] EXCEPT !.gw = IF r.err THEN "err" ELSE "ok",
                          !.translatedText = r.text]
  IN /\ Step(p, IF r.hang THEN Waiting(g[p])
                ELSE IF r.err THEN Done(rec)
                ELSE Done(Sending(rec, Translated(r.text))))
     /\ posts' = IF r.hang \/ r.err THEN posts
                 ELSE Append(posts, <<rec.channel, Translated(r.text)>>)
     /\ hist' = [hist EXCEPT !.gwFailed = @ \/ r.err]

messageCreate_cli_translated(p) ==
  /\ variant = "cli" /\ At(p, "translating")
  /\ \E outcome \in CmdOutcomes : Answered(p, translateToEnglish_cli(outcome))
  /\ UNCHANGED <<variant, dbChannels, dbWordban, translateChannels, bannedWords,
                 translateChannelID, crashed, count, acked>>

messageCreate_api_translated(p) ==
  /\ variant = "api" /\ At(p, "translating")
  /\ \E resp \in HttpResponses : Answered(p, translateToEnglish_api(resp))
  /\ UNCHANGED <<variant, dbChannels, dbWordban, translateChannels, bannedWords,
                 translateChannelID, crashed, count, acked>>

\* a panic in a handler goroutine ends the process
messageCreate_raw_translated(p) ==
  /\ variant = "raw" /\ At(p, "translating")
  /\ \E resp \in HttpResponses :
       LET r == translateToEnglish_raw(resp)
       IN \/ /\ r.panic
             /\ crashed' = TRUE
             /\ hist' = [hist EXCEPT !.gwFailed = TRUE]
             /\ last' = [g[p] EXCEPT !.pc = "panic", !.gw = "panic"]
             /\ UNCHANGED <<g, posts>>
          \/ /\ ~r.panic
             /\ Answered(p, r)
             /\ UNCHANGED crashed
  /\ UNCHANGED <<variant, dbChannels, dbWordban, translateChannels, bannedWords,
                 translateChannelID, count, acked>>

Next ==
  \E p \in Procs :
    \/ messageCreate_ban(p)
    \/ messageCreate_ban_banned(p)
    \/ messageCreate_ban_translated(p)
    \/ handleTranslateCommand_ban(p)
    \/ addTranslateChannels_ban(p)
    \/ loadTranslateChannels_query(p)
    \/ loadTranslateChannels_make(p)
    \/ loadTranslateChannels_next(p)
    \/ handleBanwordAddCommand(p)
    \/ handleBanwordAddCommand_select(p)
    \/ handleBanwordAddCommand_insert(p)
    \/ handleBanwordRemoveCommand(p)
    \/ handleBanwordRemoveCommand_delete(p)
    \/ loadBannedWords_query(p)
    \/ loadBannedWords_make(p)
    \/ loadBannedWords_next(p)
    \/ handleBanwordListCommand(p)
    \/ messageCreate_two(p)
    \/ messageCreate_two_translated(p)
    \/ interactionCreate_two(p)
    \/ addTranslateChannels_two(p)
    \/ interactionCreate_one(p)
    \/ messageCreate_cli(p)
    \/ messageCreate_cli_detected(p)
    \/ messageCreate_cli_translated(p)
    \/ messageCreate_api(p)
    \/ messageCreate_api_detected(p)
    \/ messageCreate_api_translated(p)
    \/ messageCreate_raw(p)
    \/ messageCreate_raw_detected(p)
    \/ messageCreate_raw_translated(p)

Spec == Init /\ [][Next]_vars

(***************************************************************************)
(* Properties                                                              *)
(***************************************************************************)
\* The message handlers in sight: those running and the one that has just
\* returned.
AllMsgs == {r \in {last} \cup {g[p] : p \in Procs} : r.kind = "msg"}

\* the handler of a message has just returned
Returned == last.kind = "msg" /\ last.pc = "done"

\* C1: a message whose channel is in no slot of any server's configuration
\* when the enrollment check is made never reaches the translation gateway
\* (nor the detector) and nothing is posted for it.
C1_NotEnrolledNotTranslated ==
  \A r \in AllMsgs :
     ~r.enrolled => r.gwCalls = 0 /\ r.detCalls = 0 /\ r.sent = <<>>

\* a user's message in a channel that is not enrolled, while another is
C1_Witness ==
  /\ Returned /\ last.author # Bot /\ last.text = TxtABC
  /\ ~last.enrolled /\ ~Enrolled(last.channel)
  /\ \E c \in Channels : Enrolled(c)

\* C2: a message of the bot itself never invokes the gateway and causes no
\* post, even in an enrolled channel, so a delivered "Translated: ..." post
\* produces no further post; the posts never outnumber the messages of
\* other authors.
C2_BotNotTranslated ==
  /\ \A r \in AllMsgs :
        r.author = Bot => r.gwCalls = 0 /\ r.detCalls = 0 /\ r.sent = <<>>
  /\ Len(posts) <= count.human

\* the bot's own post came back in an enrolled channel
C2_Witness ==
  /\ Returned /\ last.author = Bot /\ last.enrolled
  /\ last.text = Label \o TxtXYZ
  /\ Len(posts) = 1

\* C3: in the banned-word program, a user's message in an enrolled channel,
\* not emoji-only, without a banned token, whose translation T the gateway
\* returns and areTextsSimilar(text, T) is false, causes exactly one post, to
\* the channel of the message, with the text "Translated: " followed by T.
C3_PostsLabelledTranslation ==
  (/\ variant = "ban" /\ Returned
   /\ last.author # Bot /\ last.enrolled /\ ~isOnlyEmoji(last.text)
   /\ last.banChecked /\ ~last.hit
   /\ last.gw = "ok" /\ ~areTextsSimilar(last.text, last.translatedText))
  => /\ last.sent =
          << <<last.channel,
               <<"T", "r", "a", "n", "s", "l", "a", "t", "e", "d", ":", " ">>
                  \o last.translatedText>> >>
     /\ posts # <<>>
     /\ posts[Len(posts)] = last.sent[1]

\* "a b c" translated to "x y z"
C3_Witness ==
  /\ variant = "ban" /\ Returned /\ last.author # Bot
  /\ last.text = TxtABC /\ last.gw = "ok" /\ last.translatedText = TxtXYZ
  /\ Len(last.sent) = 1

\* C4: where the program has a similarity scorer, a translation the scorer
\* finds too similar to the original, and so one equal to it after trimming
\* and lower-casing, is not posted.
C4_SimilarNotPosted ==
  \A r \in AllMsgs :
     (/\ variant \in {"ban", "two"} /\ r.gw = "ok"
      /\ \/ areTextsSimilar(r.content, r.translatedText)
         \/ ToLower(TrimSpace(r.content)) = ToLower(TrimSpace(r.translatedText)))
     => r.sent = <<>>

\* "a b c" translated to "A b c"
C4_Witness ==
  /\ Returned /\ last.text = TxtABC /\ last.gw = "ok"
  /\ last.translatedText = <<"A", " ", "b", " ", "c">>
  /\ last.sent = <<>>

\* C5: a message in an enrolled channel whose text is only emoji-class code
\* points (the empty text too) never invokes the detector or the gateway
\* and nothing is posted for it.
C5_EmojiOnlySuppressed ==
  \A r \in AllMsgs :
     r.enrolled /\ isOnlyEmoji(r.text)
       => r.gwCalls = 0 /\ r.detCalls = 0 /\ r.sent = <<>>

\* C6: a message one of whose whitespace-delimited tokens, lower-cased, is in
\* the in-memory banned-word set when the check is made never invokes the
\* gateway and causes no post.
C6_BannedTokenSuppressed ==
  \A r \in AllMsgs :
     r.banChecked /\ r.hit => r.gwCalls = 0 /\ r.sent = <<>>

\* "W b c" while "w" is banned
C6_Witness ==
  /\ Returned /\ last.enrolled /\ last.text = TxtWBC
  /\ last.banChecked /\ last.hit /\ <<"w">> \in bannedWords

\* C7: a failure of the translation gateway aborts the message: nothing is
\* posted, the gateway is invoked at most once for a message, and the
\* program goes on to process later messages.
C7_FailureAborts ==
  \A r \in AllMsgs :
     /\ r.gwCalls <= 1
     /\ r.gw \in {"err", "panic"} => r.sent = <<>> /\ ~crashed

\* The columns a /translate command on a server without a record starts from
Blank == IF variant = "ban" THEN <<SqlNull, SqlNull, SqlNull>> ELSE <<"", "">>

\* a /translate command has just acknowledged success
Acknowledged ==
  last.kind = "translate" /\ last.resp = <<"Translation enabled for">>

\* C8: when a /translate command on server S that overlapped no other
\* /translate command acknowledges success, every slot it supplied holds the
\* supplied channel, every other slot holds what it held before the command
\* (empty if S had no record), the supplied channels are enrolled, and the
\* records of the other servers are as before.
C8_SlotwiseUpsert ==
  (Acknowledged /\ ~last.overlap) =>
    LET S == last.server
        prior == IF last.pre[S] = NoRow THEN Blank ELSE last.pre[S]
    IN /\ dbChannels[S] # NoRow
       /\ \A k \in 1..Len(last.opts) :
             /\ last.opts[k] # NoChannel =>
                  dbChannels[S][k] = last.opts[k] /\ Enrolled(last.opts[k])
             /\ last.opts[k] = NoChannel => dbChannels[S][k] = prior[k]
       /\ \A s \in Servers \ {S} : dbChannels[s] = last.pre[s]

\* slot 1 was set to c1, then slot 2 to c2
C8_Witness ==
  /\ variant = "ban" /\ Acknowledged /\ ~last.overlap /\ count.cmds = 2
  /\ last.server = "s1" /\ last.opts = <<NoChannel, "c2", NoChannel>>
  /\ last.pre["s1"] = <<"c1", SqlNull, SqlNull>>
  /\ dbChannels["s1"] = <<"c1", "c2", SqlNull>>
  /\ Enrolled("c1") /\ Enrolled("c2")

\* C9: a channel that a /translate command has acknowledged, in a slot no
\* later command has overwritten, is found enrolled by every admission
\* check made from then on.
C9_AcknowledgedStaysEnrolled ==
  variant = "ban" => \A a \in acked : isTranslateChannel_ban(a[3])

\* C10: once every command has completed, the in-memory banned-word set is
\* the set of words in storage.
C10_MemoryEqualsStorage ==
  (/\ variant = "ban" /\ ~crashed /\ ~hist.storeErr
   /\ \A p \in Procs : g[p].pc = "idle")
  => bannedWords = dbWordban

\* The only command under way is the one in p.
Alone(p) == \A q \in Procs \ {p} : g[q].kind \in {"none", "msg"}

\* C11: an admission check that runs beside a reload sees the whole index
\* (the whole banned-word set) of before the mutation or of after it: while
\* one command is under way, a channel enrolled before it and in storage
\* now is found enrolled, and a word banned before it and in storage now is
\* found banned.
C11_WholeSnapshots ==
  \A p \in Procs :
     (variant = "ban" /\ ~crashed /\ ~hist.storeErr /\ Alone(p)) =>
        /\ g[p].kind = "translate" =>
             \A c \in Channels :
                StoredIn(g[p].pre, c) /\ StoredIn(dbChannels, c)
                   => isTranslateChannel_ban(c)
        /\ g[p].kind \in {"add", "remove"} =>
             \A w \in g[p].pre \cap dbWordban : containsBannedWord(w)

\* C12: two /translate commands for one server that ran at the same time and
\* supplied different slots have both acknowledged success; then the
\* server's record, in storage and in the in-memory index, holds the
\* channel of each in its slot.
C12_NoLostUpdate ==
  (/\ Acknowledged /\ last.peer # <<>> /\ last.peer[1] = last.server
   /\ \A k \in 1..Len(last.opts) :
         last.opts[k] = NoChannel \/ last.peer[2][k] = NoChannel)
  => LET S == last.server
         both == [k \in 1..Len(last.opts) |->
                    IF last.opts[k] # NoChannel THEN last.opts[k]
                    ELSE last.peer[2][k]]
     IN /\ dbChannels[S] # NoRow
        /\ \A k \in 1..Len(both) :
              both[k] # NoChannel =>
                 /\ dbChannels[S][k] = both[k]
                 /\ variant = "ban" =>
                      /\ translateChannels[S] # NoRow
                      /\ translateChannels[S][k] = both[k]

\* C13: the pipeline of every inbound message ends, also when the gateway
\* or the detector never answers: no handler is left blocked in a call that
\* does not return (a handler that is "waiting" takes no further step).
C13_PipelineEnds ==
  \A p \in Procs : g[p].kind = "msg" => g[p].pc # "waiting"

\* C14: a /translate command that supplies no channel in any slot answers
\* with the error and changes nothing: the step on which it returns leaves
\* storage and the in-memory index as they were, and every channel is
\* enrolled after it exactly if it was before.
C14_NoChannelRejected ==
  [][ (/\ last'.kind = "translate"
       /\ \A k \in 1..Len(last'.opts) : last'.opts[k] = NoChannel)
      => /\ last'.resp = <<"Error: At least one channel must be provided.">>
         /\ UNCHANGED <<dbChannels, translateChannels>>
         /\ dbChannels = last'.pre
         /\ \A c \in Channels : Enrolled(c)' = Enrolled(c) ]_vars

\* the command was refused while a channel was enrolled
C14_Witness ==
  /\ last.kind = "translate"
  /\ \A k \in 1..Len(last.opts) : last.opts[k] = NoChannel
  /\ last.resp = <<"Error: At least one channel must be provided.">>
  /\ dbChannels = last.pre
  /\ \E c \in Channels : Enrolled(c)

MaxLen == 3
\* most words of a text given to areTextsSimilar
MaxWords == 3

\* every text of at most n code points of the alphabet
TextsOver(alphabet, n) == UNION {[1..k -> alphabet] : k \in 0..n}

\* the words joined by single spaces
RECURSIVE Joined(_)
Joined(ws) ==
  IF ws = <<>> THEN <<>>
  ELSE IF Len(ws) = 1 THEN ws[1]
  ELSE ws[1] \o <<" ">> \o Joined(Tail(ws))

\* the text in capitals between white space
Shouted(s) ==
  <<" ">> \o [i \in 1..Len(s) |-> IF s[i] = "a" THEN "A" ELSE s[i]] \o <<"\n">>

SimilarInputs ==
  LET plain == {Joined(ws) : ws \in TextsOver({<<"a">>, <<"b">>}, MaxWords)}
  IN plain \cup {Shouted(s) : s \in plain}

EmojiInputs == TextsOver({"U1F600", "UFE0F", "+", "a", "1", ".", " "}, MaxLen)

BannedInputs == TextsOver({"w", "W", "v", ".", " "}, MaxLen)

BannedSets == {{}, {<<"w">>}, {<<"W">>}, {<<"w">>, <<"v", ".">>}}

FnInit ==
  /\ variant = "ban"
  /\ dbChannels = NoRecords
  /\ dbWordban \in BannedSets
  /\ translateChannels = NoRecords
  /\ bannedWords = dbWordban
  /\ translateChannelID = ""
  /\ g = [p \in Procs |-> Idle]
  /\ last = Idle
  /\ posts = <<>>
  /\ crashed = FALSE
  /\ count = [msgs |-> 0, cmds |-> 0, human |-> 0]
  /\ hist = [gwFailed |-> FALSE, storeErr |-> FALSE, confirmed |-> {},
             rows |-> SetToBag(dbWordban)]
  /\ acked = {}

\* what a pure function leaves alone
world == <<variant, dbChannels, dbWordban, translateChannels, bannedWords,
           translateChannelID, g, posts, crashed, count, hist, acked>>

call_areTextsSimilar ==
  \E original \in SimilarInputs, translated \in SimilarInputs :
     /\ last' = [pc |-> "done", kind |-> "areTextsSimilar",
                 original |-> original, translated |-> translated,
                 result |-> areTextsSimilar(original, translated)]
     /\ UNCHANGED world

call_containsBannedWord ==
  \E text \in BannedInputs :
     /\ last' = [pc |-> "done", kind |-> "containsBannedWord", text |-> text,
                 result |-> containsBannedWord(text)]
     /\ UNCHANGED world

call_isOnlyEmoji ==
  \E text \in EmojiInputs :
     /\ last' = [pc |-> "done", kind |-> "isOnlyEmoji", text |-> text,
                 result |-> isOnlyEmoji(text)]
     /\ UNCHANGED world

FnNext ==
  \/ call_areTextsSimilar
  \/ call_containsBannedWord
  \/ call_isOnlyEmoji

FnSpec == FnInit /\ [][FnNext]_vars

\* the indices below the original's token count at which the translated
\* token is absent or differs
Mismatches(ow, tw) ==
  {i \in 1..Len(ow) : i > Len(tw) \/ ow[i] # tw[i]}

\* C16: areTextsSimilar returns false exactly if the trimmed, lower-cased
\* texts differ and more than 2 indices below the original's token count
\* have an absent or different translated token; the translated tokens
\* beyond the original's count do not count.
C16_SimilarityCount ==
  last.kind = "areTextsSimilar" =>
    LET o == ToLower(TrimSpace(last.original))
        t == ToLower(TrimSpace(last.translated))
    IN (last.result = FALSE) <=>
          (o # t /\ Cardinality(Mismatches(Fields(o), Fields(t))) > 2)

\* "a" against "b b b": one mismatch and two tokens beyond the original's,
\* still similar
C16_Witness ==
  /\ last.kind = "areTextsSimilar"
  /\ last.original = <<"a">>
  /\ last.translated = <<"b", " ", "b", " ", "b">>
  /\ last.result = TRUE

\* C17: containsBannedWord returns true exactly if a whitespace-delimited
\* token of the text, lower-cased, is a member of the banned-word set;
\* a token that only contains a banned word does not match.
C17_ExactTokenMatch ==
  last.kind = "containsBannedWord" =>
    (last.result <=>
       \E i \in 1..Len(Fields(last.text)) :
          ToLower(Fields(last.text)[i]) \in bannedWords)

\* "w." against the banned word "w"
C17_Witness ==
  /\ last.kind = "containsBannedWord" /\ bannedWords = {<<"w">>}
  /\ last.text = <<"w", ".">> /\ last.result = FALSE

\* C18: isOnlyEmoji returns true exactly if every code point of the text is
\* a symbol, an other-symbol or a non-spacing mark; so true for the empty
\* text and false for a text with a letter, a digit or another code point.
C18_EmojiClasses ==
  last.kind = "isOnlyEmoji" =>
    (last.result <=>
       \A i \in 1..Len(last.text) :
          last.text[i] \in MathSymbols \cup OtherSymbols \cup NonSpacingMarks)

\* an emoji with its variation selector
C18_Witness ==
  /\ last.kind = "isOnlyEmoji" /\ last.text = <<"U1F600", "UFE0F">>
  /\ last.result = TRUE

\* the three programs that ask a detector for the language first
Detecting == variant \in {"cli", "api", "raw"}

\* C19: in the detecting programs, a message for which the detector has
\* returned an error is finished: the handler has returned, the translation
\* gateway was never invoked for it and it has posted nothing.
C19_DetectorFailureAborts ==
  Detecting =>
    \A r \in AllMsgs :
       r.det = "err" => r.pc = "done" /\ r.gwCalls = 0 /\ r.gw = "none" /\ r.sent = <<>>

\* a user's message in the translate channel whose detection has failed
C19_Witness ==
  /\ Detecting /\ Returned /\ last.author # Bot
  /\ last.channel = translateChannelID
  /\ last.detCalls = 1 /\ last.det = "err"

\* C20: in the detecting programs, a message detected as "en" never reaches
\* the gateway and posts nothing; a message detected as any other language
\* reaches the gateway exactly once, and the gateway is reached only with
\* the detector's single call answered.
C20_EnglishSkippedOthersOnce ==
  Detecting =>
    \A r \in AllMsgs :
       /\ r.det = "en" => r.gwCalls = 0 /\ r.gw = "none" /\ r.sent = <<>>
       /\ r.det \notin {"none", "err", "en"} => r.gwCalls = 1
       /\ r.gwCalls > 0 => r.detCalls = 1 /\ r.det \notin {"none", "err"}
       /\ r.det = "none" => r.gw = "none" /\ r.sent = <<>>

\* a message detected as English has just returned while another, detected
\* as French, is with the gateway
C20_Witness ==
  /\ Detecting /\ Returned /\ last.det = "en" /\ last.detCalls = 1
  /\ \E p \in Procs :
        /\ g[p].kind = "msg" /\ g[p].pc = "translating"
        /\ g[p].det = "fr" /\ g[p].gwCalls = 1

\* the words of the banned-word set, in storage and in memory
BannedWordSet == dbWordban \cup BagToSet(hist.rows) \cup bannedWords

\* the word is one the add command stores: not empty, no white space at
\* either end
Trimmed(w) == w # <<>> /\ ~IsSpace(w[1]) /\ ~IsSpace(w[Len(w)])

\* no row of the table repeats a word
StoredOnce == \A w \in BagToSet(hist.rows) : CopiesIn(w, hist.rows) = 1

\* C21 as stated: every word of the banned-word set, in storage and in
\* memory, is non-empty, has no white space at either end, contains no
\* upper-case letter, and occurs only once.
C21_NoUpperCaseLetter ==
  variant = "ban" =>
    /\ \A w \in BannedWordSet :
          Trimmed(w) /\ \A i \in 1..Len(w) : w[i] \notin UpperLetters
    /\ StoredOnce

\* C21, corrected: every word of the banned-word set, in storage and in
\* memory, is non-empty, has no white space at either end, contains no
\* letter that has a lower-case form (it is its own strings.ToLower), and
\* occurs only once; storage holds the same words in its rows as its SELECT
\* returns.
C21_WordsNormalized ==
  variant = "ban" =>
    /\ \A w \in BannedWordSet : Trimmed(w) /\ ToLower(w) = w
    /\ StoredOnce
    /\ BagToSet(hist.rows) = dbWordban

\* " W,,v" has been added to a store that held w: w and v are stored once,
\* in storage and in memory
C21_Witness ==
  /\ variant = "ban" /\ last.kind = "add"
  /\ last.resp = <<"Added words to ban list">>
  /\ last.addedWords = << <<"v">> >>
  /\ dbWordban = {<<"w">>, <<"v">>} /\ bannedWords = dbWordban
  /\ CopiesIn(<<"w">>, hist.rows) = 1

\* C22: areTextsSimilar(X, X) is true for every text X, the empty text and
\* the texts of more than two tokens included.
C22_Reflexive ==
  (last.kind = "areTextsSimilar" /\ last.original = last.translated) => last.result = TRUE

\* " A A A\n" against itself: three tokens, capitals and white space around
C22_Witness ==
  /\ last.kind = "areTextsSimilar"
  /\ last.original = <<" ", "A", " ", "A", " ", "A", "\n">>
  /\ last.translated = last.original
  /\ last.result = TRUE

\* the records of the configuration commands
Commands == {"translate", "translate1", "add", "remove", "list"}

\* C23: every configuration command ends with exactly one response to the
\* invoking user: a command that has returned has responded once, and no
\* command is cut off without a response by the end of the process, a
\* storage failure during the reload after its write included.
C23_EveryCommandAnswered ==
  /\ (last.kind \in Commands /\ last.pc = "done") => Len(last.resp) = 1
  /\ \A p \in Procs : (g[p].kind \in Commands /\ crashed) => Len(g[p].resp) = 1

\* C24: in the two programs that translate through the remote API, a
\* response of the translation service ends in an error value or in a
\* translation, never in a panic: after a malformed response nothing is
\* posted for the message and the process is still running.
C24_MalformedIsAnError ==
  variant \in {"api", "raw"} =>
    /\ ~crashed
    /\ \A r \in AllMsgs :
          /\ r.gw # "panic"
          /\ r.gw = "err" => r.sent = <<>> /\ r.pc = "done"

(***************************************************************************)
(* The enrollment check of messageCreate, applied to two messages in one   *)
(* state of the configuration.                                             *)
(***************************************************************************)
\* every content of the channels table: per server no record, or a record
\* with each slot empty or holding a channel
ConfigsOf(v) ==
  IF v = "ban"
  THEN [Servers -> {NoRow} \cup [1..3 -> {SqlNull} \cup Channels]]
  ELSE [Servers -> {NoRow} \cup [1..2 -> {""} \cup Channels]]

\* m.GuildID and m.ChannelID of an inbound message
Located == [server : Servers, channel : Channels]

\* a check of the record of the message's own server only
Enrolls_ban_ownServer(m) ==
  \E k \in DOMAIN translateChannels[m.server] : translateChannels[m.server][k] = m.channel

\* part_000:461, isTranslateChannel(m.ChannelID)
Enrolls_ban(m) == isTranslateChannel_ban(m.channel)

\* part_001:383, isTranslateChannel(m.ChannelID)
Enrolls_two(m, dbOk) == isTranslateChannel_two(m.channel, dbOk)

EnrollInit ==
  /\ variant \in {"ban", "two"}
  /\ dbChannels \in ConfigsOf(variant)
  /\ dbWordban = {}
  /\ translateChannels = (IF variant = "ban" THEN LoadedIndex(dbChannels) ELSE NoRecords)
  /\ bannedWords = {}
  /\ translateChannelID = ""
  /\ g = [p \in Procs |-> Idle]
  /\ last = Idle
  /\ posts = <<>>
  /\ crashed = FALSE
  /\ count = [msgs |-> 0, cmds |-> 0, human |-> 0]
  /\ hist = [gwFailed |-> FALSE, storeErr |-> FALSE, confirmed |-> {},
             rows |-> SetToBag(dbWordban)]
  /\ acked = {}

call_isTranslateChannel_ban ==
  /\ variant = "ban"
  /\ \E m1 \in Located, m2 \in Located :
        last' = [pc |-> "done", kind |-> "isTranslateChannel",
                 first |-> m1, second |-> m2, dbOk |-> TRUE,
                 result |-> <<Enrolls_ban(m1), Enrolls_ban(m2)>>]
  /\ UNCHANGED world

\* the database answers both queries, or neither
call_isTranslateChannel_two ==
  /\ variant = "two"
  /\ \E m1 \in Located, m2 \in Located, dbOk \in BOOLEAN :
        last' = [pc |-> "done", kind |-> "isTranslateChannel",
                 first |-> m1, second |-> m2, dbOk |-> dbOk,
                 result |-> <<Enrolls_two(m1, dbOk), Enrolls_two(m2, dbOk)>>]
  /\ UNCHANGED world

EnrollNext ==
  \/ call_isTranslateChannel_ban
  \/ call_isTranslateChannel_two

EnrollSpec == EnrollInit /\ [][EnrollNext]_vars

\* C25: two messages with the same channel identity get the same enrollment
\* decision in the same state, whatever their servers; with the
\* configuration readable, the decision is whether the channel is in some
\* slot of some server's configuration.
C25_ServerBlind ==
  (last.kind = "isTranslateChannel" /\ last.first.channel = last.second.channel) =>
     /\ last.result[1] = last.result[2]
     /\ last.dbOk => (last.result[1] <=> Enrolled(last.first.channel))

\* c1 is in the record of s1 alone; a message of s1 and a message of s2 in
\* c1 are both enrolled
C25_Witness ==
  /\ last.kind = "isTranslateChannel" /\ variant = "ban"
  /\ last.first = [server |-> "s1", channel |-> "c1"]
  /\ last.second = [server |-> "s2", channel |-> "c1"]
  /\ dbChannels["s1"] = <<SqlNull, "c1", SqlNull>> /\ dbChannels["s2"] = NoRow
  /\ last.result = <<TRUE, TRUE>>

\* a step of a message handler: it returns, ends the process, or moves on
MsgStep ==
  \/ last'.kind = "msg" /\ last' # last
  \/ \E p \in Procs : g'[p].kind = "msg" /\ g'[p] # g[p]

\* C26: a step of a message handler, whatever the outcome of the message,
\* leaves the server configurations (storage and memory) and the banned-word
\* set (storage and memory) as they are, and has no effect to be seen from
\* outside but the one post of the emit step: the process goes on running.
C26_MessageFrame ==
  [][ MsgStep =>
        /\ UNCHANGED <<dbChannels, translateChannels, translateChannelID,
                       dbWordban, bannedWords>>
        /\ hist'.rows = hist.rows
        /\ \/ posts' = posts
           \/ /\ Len(last'.sent) = 1
              /\ posts' = Append(posts, last'.sent[1])
        /\ crashed' = crashed ]_vars

\* the text has exactly two tokens and the first is "en" in any case
EnTagged(text) ==
  Len(Fields(text)) = 2 /\ ToLower(Fields(text)[1]) = <<"e", "n">>

\* C27: in the two-slot program, an enrolled message of exactly two tokens
\* whose first token is "en" in any case reaches the gateway with exactly
\* its second token, and the similarity check is given that second token as
\* the original, not the two-token text.
C27_PrefixStripped ==
  variant = "two" =>
    \A r \in AllMsgs :
       EnTagged(r.text) =>
          /\ r.gwCalls > 0 => r.gwArgs = <<Fields(r.text)[2]>>
          /\ r.gw = "ok" => r.scored = <<Fields(r.text)[2]>>

\* "En a" has been translated to "x y z" and the scorer was given "a"
C27_Witness ==
  /\ variant = "two" /\ Returned /\ last.text = TxtEnA
  /\ last.gwArgs = <<TxtA>> /\ last.gw = "ok" /\ last.translatedText = TxtXYZ
  /\ last.scored = <<TxtA>>

\* C28: in the two programs with the similarity check, a message whose text
\* as given to the scorer has at most two tokens is never posted for,
\* whatever the gateway has returned; so the "en <word>" message of the
\* two-slot program is never posted for.
C28_ShortNeverPosted ==
  variant \in {"ban", "two"} =>
    \A r \in AllMsgs :
       /\ (r.scored # <<>> /\ Len(Fields(r.scored[1])) <= 2) => r.sent = <<>>
       /\ (variant = "two" /\ EnTagged(r.text)) => r.sent = <<>>

\* "a b" has been translated to "x y z", two mismatches, and nothing is posted
C28_Witness ==
  /\ variant = "two" /\ Returned /\ last.text = TxtAB
  /\ last.scored = <<TxtAB>> /\ last.translatedText = TxtXYZ
  /\ last.sent = <<>>

\* a banned-word add command has just answered that a storage call failed
AddFailed ==
  /\ variant = "ban" /\ last.kind = "add"
  /\ last.resp \in {<<"Failed to check word">>, <<"Failed to add word to ban list">>}

\* C29: when a banned-word add command ends with an error response because
\* a storage call has failed, the in-memory banned-word set equals the set
\* held in storage: the words inserted before the failure are in both or in
\* neither.
C29_FailedAddInSync ==
  AddFailed =>
    /\ bannedWords = dbWordban
    /\ \A i \in 1..Len(last.addedWords) :
          last.addedWords[i] \in bannedWords <=> last.addedWords[i] \in dbWordban

====
